---- MODULE Spec2Model ----
(***************************************************************************)
(* OpenAIContentGenerator (packages/core/src/core/openaiContentGenerator.ts) *)
(* as a state machine: the adapter's client configuration, and per call    *)
(* the request, the message list sent to the provider, the stream          *)
(* accumulator and what the caller receives.                               *)
(*                                                                         *)
(* JavaScript values are tagged records: [k |-> "string", s |-> chars],    *)
(* [k |-> "array", items |-> seq], [k |-> "undefined"], and an object is   *)
(* [k |-> "object", ...] with exactly the properties it has, so that       *)
(* `'role' in x` is "role" \in DOMAIN x.  A string is a sequence of        *)
(* one-character strings: its length and its concatenations are the        *)
(* program's.                                                              *)
(***************************************************************************)
EXTENDS Integers, Sequences, FiniteSets, TLC

VARIABLES
  client,          \* this.client: the configuration given to the constructor
  pc,              \* per call: where the call's handler is suspended
  op,              \* per call: the operation invoked
  request,         \* per call: the request argument
  messages,        \* per call: the handler's local `messages`
  accumulatedText, \* per call: streamGenerator's local `accumulatedText`
  emitted,         \* per call: the responses yielded to the stream's consumer
  outcome,         \* per call: what the returned promise settled with
  transport,       \* per call: what the provider delivered to this call so far
  sent             \* the provider calls issued, in order

vars == <<client, pc, op, request, messages, accumulatedText, emitted,
          outcome, transport, sent>>

-----------------------------------------------------------------------------
(* Bounds of the model *)

MaxCalls == 2
MaxChunks == 3
MaxInputSize == 2
MaxSysParts == 2
MaxChoices == 2
MaxVectors == 2

Calls == 1..MaxCalls

RECURSIVE SeqsUpTo(_, _)
\* the sequences over S of length at most n
SeqsUpTo(S, n) == IF n = 0 THEN {<<>>} ELSE [1..n -> S] \cup SeqsUpTo(S, n - 1)

-----------------------------------------------------------------------------
(* Strings *)

NL == <<"\n">>
Hi == <<"H", "i">>
Hello == <<"H", "e", "l", "l", "o">>
Texts == {<<>>, Hi, Hello}

\* String(obj) of a plain object, as Array.prototype.join stringifies it
ObjectObject ==
  <<"[", "o", "b", "j", "e", "c", "t", " ", "O", "b", "j", "e", "c", "t", "]">>

RECURSIVE Concat(_)
\* strs[1] + strs[2] + ...
Concat(strs) ==
  IF strs = <<>> THEN <<>> ELSE Head(strs) \o Concat(Tail(strs))

RECURSIVE JoinStrings(_, _)
\* Array.prototype.join on an array of strings
JoinStrings(strs, sep) ==
  IF strs = <<>> THEN <<>>
  ELSE IF Len(strs) = 1 THEN Head(strs)
  ELSE Head(strs) \o sep \o JoinStrings(Tail(strs), sep)

-----------------------------------------------------------------------------
(* JavaScript values *)

JSString(s) == [k |-> "string", s |-> s]
JSArray(items) == [k |-> "array", items |-> items]
Undefined == [k |-> "undefined"]
TextPart(t) == [k |-> "object", text |-> t]
NonTextPart == [k |-> "object", inlineData |-> "blob"]
Turn(role, parts) == [k |-> "object", role |-> role, parts |-> parts]
TurnNoParts(role) == [k |-> "object", role |-> role]

TypeOf(v) == IF v.k = "array" THEN "object" ELSE v.k
IsArray(v) == v.k = "array"
\* 'f' in v, for an object or an array v
Has(v, f) == v.k = "object" /\ f \in DOMAIN v
\* if (v)
Truthy(v) ==
  CASE v.k = "undefined" -> FALSE
    [] v.k = "string" -> v.s # <<>>
    [] OTHER -> TRUE

\* String(v) of an array element, as join applies it
ToStr(v) ==
  CASE v.k = "string" -> v.s
    [] v.k = "undefined" -> <<>>
    [] OTHER -> ObjectObject

\* (arr as string[]).join(sep)
Join(items, sep) == JoinStrings([i \in 1..Len(items) |-> ToStr(items[i])], sep)

Message(role, content) == [role |-> role, content |-> content]

-----------------------------------------------------------------------------
(* convertToOpenAIMessages *)

RECURSIVE textParts(_)
\* the loop collecting textParts from a parts list: a string part is pushed
\* as it is, an object part when it has a truthy text
textParts(parts) ==
  IF parts = <<>> THEN <<>>
  ELSE LET part == Head(parts)
           rest == textParts(Tail(parts))
       IN IF TypeOf(part) = "string" THEN <<part.s>> \o rest
          ELSE IF TypeOf(part) = "object" /\ Has(part, "text") /\ part.text # <<>>
               THEN <<part.text>> \o rest
               ELSE rest

\* one iteration of `for (const content of contents)`: the messages pushed
ContentMessages(content) ==
  IF ~Has(content, "parts") THEN <<>>
  ELSE IF Has(content, "role") /\ content.role = "user" THEN
         IF Len(textParts(content.parts)) > 0
         THEN <<Message("user", JoinStrings(textParts(content.parts), NL))>>
         ELSE <<>>
  ELSE IF Has(content, "role") /\ content.role = "model" THEN
         IF Len(textParts(content.parts)) > 0
         THEN <<Message("assistant", JoinStrings(textParts(content.parts), NL))>>
         ELSE <<>>
  ELSE <<>>

RECURSIVE ContentsLoopUnshift(_)
\* (mutant) each Turn's message is put in front of the earlier ones
ContentsLoopUnshift(contents) ==
  IF contents = <<>> THEN <<>>
  ELSE ContentsLoopUnshift(Tail(contents)) \o ContentMessages(Head(contents))

RECURSIVE ContentsLoop(_)
\* for (const content of contents) { ... messages.push(...) }
ContentsLoop(contents) ==
  IF contents = <<>> THEN <<>>
  ELSE ContentMessages(Head(contents)) \o ContentsLoop(Tail(contents))

\* (mutant) a single Part is taken as a Content instead of being wrapped
NormalizeContentsNoWrap(contentsUnion) ==
  IF IsArray(contentsUnion) THEN
    IF Len(contentsUnion.items) > 0
       /\ TypeOf(contentsUnion.items[1]) = "object"
       /\ Has(contentsUnion.items[1], "role")
    THEN contentsUnion.items
    ELSE <<Turn("user", contentsUnion.items)>>
  ELSE IF TypeOf(contentsUnion) = "object"
  THEN <<contentsUnion>>
  ELSE <<>>

\* "Normalize to Content array": the value of `contents` before the loop
NormalizeContents(contentsUnion) ==
  IF IsArray(contentsUnion) THEN
    IF Len(contentsUnion.items) > 0
       /\ TypeOf(contentsUnion.items[1]) = "object"
       /\ Has(contentsUnion.items[1], "role")
    THEN contentsUnion.items
    ELSE <<Turn("user", contentsUnion.items)>>
  ELSE IF TypeOf(contentsUnion) = "object" /\ Has(contentsUnion, "role")
  THEN <<contentsUnion>>
  ELSE IF TypeOf(contentsUnion) = "object"
  THEN <<Turn("user", <<contentsUnion>>)>>
  ELSE <<>>

convertToOpenAIMessages(contentsUnion) ==
  IF TypeOf(contentsUnion) = "string"
  THEN <<Message("user", contentsUnion.s)>>
  ELSE IF IsArray(contentsUnion)
          /\ Len(contentsUnion.items) > 0
          /\ TypeOf(contentsUnion.items[1]) = "string"
  THEN <<Message("user", Join(contentsUnion.items, NL))>>
  ELSE ContentsLoop(NormalizeContents(contentsUnion))

-----------------------------------------------------------------------------
(* systemInstruction, as generateContent and streamGenerator each resolve it *)

\* request.config?.systemInstruction
SystemInstructionOf(req) ==
  IF req.config # Undefined /\ "systemInstruction" \in DOMAIN req.config
  THEN req.config.systemInstruction
  ELSE Undefined

\* generateContent: the value of systemText at `if (systemText)`
systemTextGenerate(si) ==
  IF TypeOf(si) = "string" THEN si.s
  ELSE IF Has(si, "text") THEN si.text
  ELSE IF IsArray(si) THEN JoinStrings(textParts(si.items), NL)
  ELSE IF Has(si, "parts") THEN JoinStrings(textParts(si.parts), NL)
  ELSE <<>>

\* (mutant) the branch for a Content with parts is missing
systemTextStreamNoContent(si) ==
  IF TypeOf(si) = "string" THEN si.s
  ELSE IF Has(si, "text") THEN si.text
  ELSE IF IsArray(si) THEN JoinStrings(textParts(si.items), NL)
  ELSE <<>>

\* streamGenerator: the value of systemText at `if (systemText)`
systemTextStream(si) ==
  IF TypeOf(si) = "string" THEN si.s
  ELSE IF Has(si, "text") THEN si.text
  ELSE IF IsArray(si) THEN JoinStrings(textParts(si.items), NL)
  ELSE IF Has(si, "parts") THEN JoinStrings(textParts(si.parts), NL)
  ELSE <<>>

\* (mutant) messages.push(m): the system message goes last
UnshiftAsPush(msgs, m) == msgs \o <<m>>

\* messages.unshift(m)
Unshift(msgs, m) == <<m>> \o msgs

\* generateContent, up to the provider call: the final `messages`
generateContentMessages(req) ==
  LET msgs == convertToOpenAIMessages(req.contents)
      si == SystemInstructionOf(req)
  IN IF Truthy(si) /\ systemTextGenerate(si) # <<>>
     THEN Unshift(msgs, Message("system", systemTextGenerate(si)))
     ELSE msgs

\* streamGenerator, up to the provider call: the final `messages`
streamGeneratorMessages(req) ==
  LET msgs == convertToOpenAIMessages(req.contents)
      si == SystemInstructionOf(req)
  IN IF Truthy(si) /\ systemTextStream(si) # <<>>
     THEN Unshift(msgs, Message("system", systemTextStream(si)))
     ELSE msgs

-----------------------------------------------------------------------------
(* convertToGeminiResponse and the per-chunk conversion of streamGenerator *)

\* arr[0]
First(arr) == IF Len(arr) > 0 THEN arr[1] ELSE Undefined

\* x?.f, read as the string marker "undefined" when x or x.f is missing
FinishSignalOf(choice) ==
  IF choice # Undefined /\ "finish_reason" \in DOMAIN choice
  THEN choice.finish_reason
  ELSE "undefined"

\* choice?.message?.content || ''
MessageContentOf(choice) ==
  IF choice # Undefined /\ "message" \in DOMAIN choice
     /\ "content" \in DOMAIN choice.message
  THEN choice.message.content
  ELSE <<>>

\* chunk.choices[0]?.delta?.content || ''
DeltaOf(chunk) ==
  LET choice == First(chunk.choices)
  IN IF choice # Undefined /\ "delta" \in DOMAIN choice
        /\ "content" \in DOMAIN choice.delta
     THEN choice.delta.content
     ELSE <<>>

\* response.usage?.f || 0
UsageOf(response, f) ==
  IF "usage" \in DOMAIN response /\ f \in DOMAIN response.usage
  THEN response.usage[f]
  ELSE 0

\* convertToGeminiResponse: "Map OpenAI finish reasons to Gemini FinishReason enum"
finishReasonOfResponse(response) ==
  LET fr == FinishSignalOf(First(response.choices))
  IN IF fr = "stop" THEN "STOP"
     ELSE IF fr = "length" THEN "MAX_TOKENS"
     ELSE IF fr = "content_filter" THEN "SAFETY"
     ELSE "OTHER"

\* (mutant) the chunk's finish reason mapped as 'stop' ? STOP : OTHER
finishReasonStopOrOther(chunk) ==
  IF FinishSignalOf(First(chunk.choices)) = "stop" THEN "STOP" ELSE "OTHER"

\* streamGenerator: "Map OpenAI finish reasons to Gemini FinishReason enum"
finishReasonOfChunk(chunk) ==
  LET fr == FinishSignalOf(First(chunk.choices))
  IN IF fr = "stop" THEN "STOP"
     ELSE IF fr = "length" THEN "MAX_TOKENS"
     ELSE IF fr = "content_filter" THEN "SAFETY"
     ELSE "OTHER"

Candidate(text, finishReason) ==
  [content |-> [role |-> "model", parts |-> <<[text |-> text]>>],
   finishReason |-> finishReason,
   index |-> 0]

\* the last element of a non-empty array
Last(arr) == arr[Len(arr)]

\* (mutant) the text is taken from the last choice instead of choices[0]
convertToGeminiResponseLastChoice(response) ==
  [candidates |->
     <<Candidate(MessageContentOf(IF response.choices = <<>> THEN Undefined
                                  ELSE Last(response.choices)),
                 finishReasonOfResponse(response))>>,
   usageMetadata |->
     [promptTokenCount |-> UsageOf(response, "prompt_tokens"),
      candidatesTokenCount |-> UsageOf(response, "completion_tokens"),
      totalTokenCount |-> UsageOf(response, "total_tokens")]]

convertToGeminiResponse(response) ==
  [candidates |->
     <<Candidate(MessageContentOf(First(response.choices)),
                 finishReasonOfResponse(response))>>,
   usageMetadata |->
     [promptTokenCount |-> UsageOf(response, "prompt_tokens"),
      candidatesTokenCount |-> UsageOf(response, "completion_tokens"),
      totalTokenCount |-> UsageOf(response, "total_tokens")]]

\* the geminiResponse streamGenerator yields for a chunk, given the
\* accumulatedText after the chunk's delta was appended
ChunkResponse(acc, chunk) ==
  [candidates |-> <<Candidate(acc, finishReasonOfChunk(chunk))>>,
   usageMetadata |->
     [promptTokenCount |-> 0,
      candidatesTokenCount |-> 0,
      totalTokenCount |-> 0]]

-----------------------------------------------------------------------------
(* countTokens *)

\* (mutant) Math.floor(n / 4)
FloorDiv4(n) == n \div 4

\* Math.ceil(n / 4)
CeilDiv4(n) == IF n % 4 = 0 THEN n \div 4 ELSE (n \div 4) + 1

\* messages.map((m) => m.content).join('')
TotalText(msgs) == Concat([i \in 1..Len(msgs) |-> msgs[i].content])

countTokensResult(req) ==
  [totalTokens |->
     CeilDiv4(Len(TotalText(convertToOpenAIMessages(req.contents))))]

-----------------------------------------------------------------------------
(* embedContent *)

\* messages.map((m) => m.content).join('\n')
embedText(contents) ==
  LET msgs == convertToOpenAIMessages(contents)
  IN JoinStrings([i \in 1..Len(msgs) |-> msgs[i].content], NL)

\* (mutant) values: the last vector of response.data
embedContentResultLastVector(response) ==
  [embeddings |-> <<[values |-> Last(response.data).embedding]>>]

\* { embeddings: [{ values: response.data[0].embedding }] }
embedContentResult(response) ==
  [embeddings |-> <<[values |-> response.data[1].embedding]>>]

-----------------------------------------------------------------------------
(* The inputs: requests, and what the provider may deliver *)

Roles == {"user", "model", "system"}
StringValues == {JSString(t) : t \in Texts}
ObjectParts == {TextPart(t) : t \in Texts} \cup {NonTextPart}
PartValues == StringValues \cup ObjectParts

\* The size of an input element: a string or a Part counts 1, a Turn counts
\* its number of parts (at least 1).
TurnsOfSize(n) ==
  IF n = 1
  THEN {TurnNoParts(r) : r \in Roles}
       \cup {Turn(r, ps) : r \in Roles, ps \in SeqsUpTo(PartValues, 1)}
  ELSE {Turn(r, ps) : r \in Roles, ps \in [1..n -> PartValues]}

ElementsOfSize(n) ==
  (IF n = 1 THEN StringValues \cup ObjectParts ELSE {}) \cup TurnsOfSize(n)

RECURSIVE ArraysOfSize(_)
RECURSIVE ArraysStarting(_, _)
\* the arrays of total size n whose first element has size i or more
ArraysStarting(n, i) ==
  IF i > n THEN {}
  ELSE {<<e>> \o rest : e \in ElementsOfSize(i), rest \in ArraysOfSize(n - i)}
       \cup ArraysStarting(n, i + 1)

\* the arrays of total size n
ArraysOfSize(n) == IF n = 0 THEN {<<>>} ELSE ArraysStarting(n, 1)

RECURSIVE ArraysUpTo(_)
ArraysUpTo(n) ==
  IF n = 0 THEN ArraysOfSize(0) ELSE ArraysOfSize(n) \cup ArraysUpTo(n - 1)

RECURSIVE ElementsUpTo(_)
ElementsUpTo(n) ==
  IF n = 0 THEN {} ELSE ElementsOfSize(n) \cup ElementsUpTo(n - 1)

\* request.contents: a string, a Part, a Turn, or an array of them
ContentsInputs ==
  ElementsUpTo(MaxInputSize)
  \cup {JSArray(a) : a \in ArraysUpTo(MaxInputSize)}

\* request.config.systemInstruction: a string, a Part, a list of Parts, a Turn
SystemInstructions ==
  {Undefined}
  \cup StringValues
  \cup ObjectParts
  \cup {JSArray(ps) : ps \in SeqsUpTo(PartValues, MaxSysParts)}
  \cup {[k |-> "object", parts |-> ps] : ps \in SeqsUpTo(PartValues, MaxSysParts)}
  \cup {Turn("user", ps) : ps \in SeqsUpTo(PartValues, MaxSysParts)}
  \cup {TurnNoParts("user")}

\* a request; config is Undefined when the request has none
Request(contents, config) ==
  [model |-> "gpt-4o", contents |-> contents, config |-> config]
RequestNoConfig(contents) == Request(contents, Undefined)
RequestNoSystem(contents) == Request(contents, [temperature |-> 0])
RequestWith(contents, si) == Request(contents, [systemInstruction |-> si])

FewContents ==
  {JSString(Hi),
   JSArray(<<Turn("user", <<TextPart(Hi)>>), Turn("model", <<TextPart(Hello)>>)>>),
   JSArray(<<>>)}
FewSystemInstructions ==
  {JSString(Hello), JSArray(<<TextPart(Hi), TextPart(Hello)>>)}

\* every conversation with a few systemInstructions, and every
\* systemInstruction with a few conversations
FewConfigs ==
  {Undefined} \cup {[systemInstruction |-> si] : si \in FewSystemInstructions}
Configs ==
  {Undefined, [temperature |-> 0]}
  \cup {[systemInstruction |-> si] : si \in SystemInstructions}

StreamContents == {JSArray(<<Turn("user", <<TextPart(Hello)>>)>>)}
StreamConfigs == {Undefined, [systemInstruction |-> JSString(Hi)]}

FinishSignals == {"stop", "length", "content_filter", "tool_calls"}
UsageValues == {0, 7}
Errors == {"ProviderTransportError", "ProviderAPIError"}

\* choices[0] of a chat completion
FirstChoices ==
  {[message |-> [content |-> t], finish_reason |-> f] :
      t \in Texts, f \in FinishSignals}
  \cup {[message |-> [content |-> t]] : t \in Texts}
  \cup {[message |-> [role |-> "assistant"], finish_reason |-> f] :
          f \in FinishSignals}
  \cup {[finish_reason |-> f] : f \in FinishSignals}
LaterChoices ==
  {[message |-> [content |-> Hello], finish_reason |-> "length"],
   [message |-> [content |-> Hi], finish_reason |-> "stop"]}
ChoiceLists ==
  {<<>>}
  \cup {<<c>> \o rest : c \in FirstChoices,
                       rest \in SeqsUpTo(LaterChoices, MaxChoices - 1)}

UsageFields == {"prompt_tokens", "completion_tokens", "total_tokens"}
Usages == UNION {[fs -> UsageValues] : fs \in SUBSET UsageFields}

Responses ==
  {[choices |-> cs] : cs \in ChoiceLists}
  \cup {[choices |-> cs, usage |-> u] : cs \in ChoiceLists, u \in Usages}

\* the chunks of a streamed chat completion
Chunks ==
  {[choices |-> <<>>]}
  \cup {[choices |-> <<[delta |-> [content |-> t]]>>] : t \in Texts}
  \cup {[choices |-> <<[delta |-> [role |-> "assistant"]]>>]}
  \cup {[choices |-> <<[delta |-> [content |-> Hi], finish_reason |-> f]>>] :
          f \in FinishSignals}
  \cup {[choices |-> <<[finish_reason |-> "stop"]>>]}

\* conversations to embed: a string, or up to MaxInputSize user Turns of up
\* to MaxInputSize Text parts each
EmbedTurns ==
  {Turn("user", ps) :
     ps \in SeqsUpTo({TextPart(Hi), TextPart(Hello)}, MaxInputSize)}
EmbedContents ==
  StringValues \cup {JSArray(ts) : ts \in SeqsUpTo(EmbedTurns, MaxInputSize)}

\* response.data of an embeddings call: up to MaxVectors vectors
Vectors == {<<1, 2>>, <<3>>}
EmbeddingResponses ==
  {[data |-> ds] :
     ds \in SeqsUpTo({[embedding |-> v] : v \in Vectors}, MaxVectors)}

ClientConfigs ==
  {[apiKey |-> "sk-1"], [apiKey |-> "sk-1", baseURL |-> "http://localhost/v1"]}

-----------------------------------------------------------------------------
(* The adapter *)

Pending == [k |-> "pending"]
Returned(v) == [k |-> "returned", value |-> v]
Thrown(e) == [k |-> "thrown", error |-> e]

\* client.chat.completions.create({model, messages, ..., stream})
ChatCall(c, req, msgs, streaming) ==
  [call |-> c, api |-> "chat.completions.create", model |-> req.model,
   messages |-> msgs, stream |-> streaming, client |-> client]

\* client.embeddings.create({model: 'text-embedding-3-small', input})
EmbeddingCall(c, text) ==
  [call |-> c, api |-> "embeddings.create", model |-> "text-embedding-3-small",
   input |-> text, client |-> client]

Event(ev, v) == [ev |-> ev, v |-> v]

\* the chunks the provider delivered to call c, in order
RECURSIVE ChunksIn(_)
ChunksIn(log) ==
  IF log = <<>> THEN <<>>
  ELSE IF Head(log).ev = "chunk" THEN <<Head(log).v>> \o ChunksIn(Tail(log))
  ELSE ChunksIn(Tail(log))

\* new OpenAIContentGenerator(config)
Init ==
  /\ client \in ClientConfigs
  /\ pc = [c \in Calls |-> "idle"]
  /\ op = [c \in Calls |-> "none"]
  /\ request = [c \in Calls |-> Undefined]
  /\ messages = [c \in Calls |-> <<>>]
  /\ accumulatedText = [c \in Calls |-> <<>>]
  /\ emitted = [c \in Calls |-> <<>>]
  /\ outcome = [c \in Calls |-> Pending]
  /\ transport = [c \in Calls |-> <<>>]
  /\ sent = <<>>

\* (mutant) `messages` is a field of the adapter that is never reset: each
\* call pushes its messages after those of the previous provider call
generateContentSharedMessages(c, contents, configs) ==
  /\ pc[c] = "idle"
  /\ \E req \in {Request(cs, config) : cs \in contents, config \in configs} :
       LET kept == IF sent = <<>> THEN <<>> ELSE sent[Len(sent)].messages
       IN /\ op' = [op EXCEPT ![c] = "generateContent"]
          /\ request' = [request EXCEPT ![c] = req]
          /\ messages' = [messages EXCEPT ![c] = kept \o generateContentMessages(req)]
          /\ sent' = Append(sent, ChatCall(c, req, kept \o generateContentMessages(req),
                                           FALSE))
          /\ pc' = [pc EXCEPT ![c] = "awaitCompletion"]
          /\ UNCHANGED <<client, accumulatedText, emitted, outcome, transport>>

\* generateContent(request), up to `await this.client.chat.completions.create`
generateContent(c, contents, configs) ==
  /\ pc[c] = "idle"
  /\ \E req \in {Request(cs, config) : cs \in contents, config \in configs} :
       /\ op' = [op EXCEPT ![c] = "generateContent"]
       /\ request' = [request EXCEPT ![c] = req]
       /\ messages' = [messages EXCEPT ![c] = generateContentMessages(req)]
       /\ sent' = Append(sent, ChatCall(c, req, generateContentMessages(req), FALSE))
       /\ pc' = [pc EXCEPT ![c] = "awaitCompletion"]
       /\ UNCHANGED <<client, accumulatedText, emitted, outcome, transport>>

\* the provider answers: `return this.convertToGeminiResponse(response)`
generateContentReturn(c, responses) ==
  /\ pc[c] = "awaitCompletion"
  /\ \E response \in responses :
       /\ transport' = [transport EXCEPT ![c] = Append(@, Event("response", response))]
       /\ outcome' = [outcome EXCEPT ![c] = Returned(convertToGeminiResponse(response))]
       /\ pc' = [pc EXCEPT ![c] = "done"]
       /\ UNCHANGED <<client, op, request, messages, accumulatedText, emitted, sent>>

\* the provider call rejects: the await throws and nothing catches it
generateContentThrow(c) ==
  /\ pc[c] = "awaitCompletion"
  /\ \E e \in Errors :
       /\ transport' = [transport EXCEPT ![c] = Append(@, Event("error", e))]
       /\ outcome' = [outcome EXCEPT ![c] = Thrown(e)]
       /\ pc' = [pc EXCEPT ![c] = "failed"]
       /\ UNCHANGED <<client, op, request, messages, accumulatedText, emitted, sent>>

\* generateContentStream(request): `return streamGenerator()`, whose body
\* has not started
generateContentStream(c, contents, configs) ==
  /\ pc[c] = "idle"
  /\ \E req \in {Request(cs, config) : cs \in contents, config \in configs} :
       /\ op' = [op EXCEPT ![c] = "generateContentStream"]
       /\ request' = [request EXCEPT ![c] = req]
       /\ pc' = [pc EXCEPT ![c] = "suspendedStart"]
       /\ UNCHANGED <<client, messages, accumulatedText, emitted, outcome,
                      transport, sent>>

\* the consumer's first pull: streamGenerator runs up to
\* `await client.chat.completions.create({..., stream: true})`
streamGeneratorStart(c) ==
  /\ pc[c] = "suspendedStart"
  /\ messages' = [messages EXCEPT ![c] = streamGeneratorMessages(request[c])]
  /\ sent' = Append(sent, ChatCall(c, request[c],
                                   streamGeneratorMessages(request[c]), TRUE))
  /\ pc' = [pc EXCEPT ![c] = "awaitStream"]
  /\ UNCHANGED <<client, op, request, accumulatedText, emitted, outcome,
                 transport>>

\* the provider returns the stream: `let accumulatedText = ''`, and the
\* `for await` waits for a chunk
streamGeneratorOpen(c) ==
  /\ pc[c] = "awaitStream"
  /\ transport' = [transport EXCEPT ![c] = Append(@, Event("stream", "open"))]
  /\ accumulatedText' = [accumulatedText EXCEPT ![c] = <<>>]
  /\ pc' = [pc EXCEPT ![c] = "awaitChunk"]
  /\ UNCHANGED <<client, op, request, messages, emitted, outcome, sent>>

\* (mutant) accumulatedText = delta: the delta replaces the accumulated text
accumulatedTextBareDelta(acc, chunk) == DeltaOf(chunk)

\* accumulatedText += delta: the value of accumulatedText after a chunk
accumulatedTextAfter(acc, chunk) == acc \o DeltaOf(chunk)

\* (mutant) accumulatedText is a field of the adapter, shared by every
\* stream in flight, instead of a local of streamGenerator
streamGeneratorChunkSharedAccumulator(c, chunks) ==
  /\ pc[c] = "awaitChunk"
  /\ Len(ChunksIn(transport[c])) < MaxChunks
  /\ \E chunk \in chunks :
       /\ transport' = [transport EXCEPT ![c] = Append(@, Event("chunk", chunk))]
       /\ accumulatedText' =
            [d \in Calls |-> accumulatedTextAfter(accumulatedText[c], chunk)]
       /\ emitted' =
            [emitted EXCEPT
               ![c] = Append(@, ChunkResponse(accumulatedTextAfter(accumulatedText[c],
                                                                   chunk), chunk))]
       /\ pc' = [pc EXCEPT ![c] = "yielded"]
       /\ UNCHANGED <<client, op, request, messages, outcome, sent>>

\* a chunk arrives: one iteration of the `for await` body, up to the yield
streamGeneratorChunk(c, chunks) ==
  /\ pc[c] = "awaitChunk"
  /\ Len(ChunksIn(transport[c])) < MaxChunks
  /\ \E chunk \in chunks :
       /\ transport' = [transport EXCEPT ![c] = Append(@, Event("chunk", chunk))]
       /\ accumulatedText' =
            [accumulatedText EXCEPT ![c] = accumulatedTextAfter(@, chunk)]
       /\ emitted' =
            [emitted EXCEPT
               ![c] = Append(@, ChunkResponse(accumulatedTextAfter(accumulatedText[c],
                                                                   chunk), chunk))]
       /\ pc' = [pc EXCEPT ![c] = "yielded"]
       /\ UNCHANGED <<client, op, request, messages, outcome, sent>>

\* the consumer pulls again: the generator resumes after the yield and the
\* `for await` waits for the next chunk
streamGeneratorResume(c) ==
  /\ pc[c] = "yielded"
  /\ pc' = [pc EXCEPT ![c] = "awaitChunk"]
  /\ UNCHANGED <<client, op, request, messages, accumulatedText, emitted,
                 outcome, transport, sent>>

\* the consumer stops pulling and closes the generator at a yield
streamGeneratorClose(c) ==
  /\ pc[c] = "yielded"
  /\ outcome' = [outcome EXCEPT ![c] = Returned("closed")]
  /\ pc' = [pc EXCEPT ![c] = "closed"]
  /\ UNCHANGED <<client, op, request, messages, accumulatedText, emitted,
                 transport, sent>>

\* the transport closes: the `for await` ends and the generator completes
streamGeneratorEnd(c) ==
  /\ pc[c] = "awaitChunk"
  /\ transport' = [transport EXCEPT ![c] = Append(@, Event("end", "end"))]
  /\ outcome' = [outcome EXCEPT ![c] = Returned("completed")]
  /\ pc' = [pc EXCEPT ![c] = "done"]
  /\ UNCHANGED <<client, op, request, messages, accumulatedText, emitted, sent>>

\* (mutant) a rejection is caught and the stream ends as if the transport
\* had closed
streamGeneratorThrowSwallowed(c) ==
  /\ pc[c] \in {"awaitStream", "awaitChunk"}
  /\ \E e \in Errors :
       /\ transport' = [transport EXCEPT ![c] = Append(@, Event("error", e))]
       /\ outcome' = [outcome EXCEPT ![c] = Returned("completed")]
       /\ pc' = [pc EXCEPT ![c] = "done"]
       /\ UNCHANGED <<client, op, request, messages, accumulatedText, emitted, sent>>

\* the provider call or the stream rejects: the await throws out of the
\* generator
streamGeneratorThrow(c) ==
  /\ pc[c] \in {"awaitStream", "awaitChunk"}
  /\ \E e \in Errors :
       /\ transport' = [transport EXCEPT ![c] = Append(@, Event("error", e))]
       /\ outcome' = [outcome EXCEPT ![c] = Thrown(e)]
       /\ pc' = [pc EXCEPT ![c] = "failed"]
       /\ UNCHANGED <<client, op, request, messages, accumulatedText, emitted, sent>>

\* countTokens(request): no await, the promise resolves with the estimate
countTokens(c, contents, configs) ==
  /\ pc[c] = "idle"
  /\ \E req \in {Request(cs, config) : cs \in contents, config \in configs} :
       /\ op' = [op EXCEPT ![c] = "countTokens"]
       /\ request' = [request EXCEPT ![c] = req]
       /\ messages' = [messages EXCEPT ![c] = convertToOpenAIMessages(req.contents)]
       /\ outcome' = [outcome EXCEPT ![c] = Returned(countTokensResult(req))]
       /\ pc' = [pc EXCEPT ![c] = "done"]
       /\ UNCHANGED <<client, accumulatedText, emitted, transport, sent>>

\* embedContent(request), up to `await this.client.embeddings.create`
embedContent(c, contents, configs) ==
  /\ pc[c] = "idle"
  /\ \E req \in {Request(cs, config) : cs \in contents, config \in configs} :
       /\ op' = [op EXCEPT ![c] = "embedContent"]
       /\ request' = [request EXCEPT ![c] = req]
       /\ messages' = [messages EXCEPT ![c] = convertToOpenAIMessages(req.contents)]
       /\ sent' = Append(sent, EmbeddingCall(c, embedText(req.contents)))
       /\ pc' = [pc EXCEPT ![c] = "awaitEmbedding"]
       /\ UNCHANGED <<client, accumulatedText, emitted, outcome, transport>>

\* the provider answers: the first vector is wrapped and returned; reading
\* `.embedding` of response.data[0] throws a TypeError when data is empty
embedContentReturn(c, responses) ==
  /\ pc[c] = "awaitEmbedding"
  /\ \E response \in responses :
       /\ transport' = [transport EXCEPT ![c] = Append(@, Event("response", response))]
       /\ IF response.data = <<>>
          THEN /\ outcome' = [outcome EXCEPT ![c] = Thrown("TypeError")]
               /\ pc' = [pc EXCEPT ![c] = "failed"]
          ELSE /\ outcome' = [outcome EXCEPT ![c] = Returned(embedContentResult(response))]
               /\ pc' = [pc EXCEPT ![c] = "done"]
       /\ UNCHANGED <<client, op, request, messages, accumulatedText, emitted, sent>>

\* the embeddings call rejects: the await throws and nothing catches it
embedContentThrow(c) ==
  /\ pc[c] = "awaitEmbedding"
  /\ \E e \in Errors :
       /\ transport' = [transport EXCEPT ![c] = Append(@, Event("error", e))]
       /\ outcome' = [outcome EXCEPT ![c] = Thrown(e)]
       /\ pc' = [pc EXCEPT ![c] = "failed"]
       /\ UNCHANGED <<client, op, request, messages, accumulatedText, emitted, sent>>

-----------------------------------------------------------------------------
(* Specifications *)

\* one call up to the provider call: every conversation with a few
\* configs, and every config with a few conversations
NextRequests ==
  \/ generateContent(1, ContentsInputs, FewConfigs)
  \/ generateContent(1, FewContents, Configs)
  \/ generateContentStream(1, ContentsInputs, FewConfigs)
  \/ generateContentStream(1, FewContents, Configs)
  \/ countTokens(1, ContentsInputs, FewConfigs)
  \/ countTokens(1, FewContents, Configs)
  \/ streamGeneratorStart(1)

SpecRequests == Init /\ [][NextRequests]_vars

\* one call, a few requests, everything the provider may deliver
NextStream ==
  \/ generateContent(1, StreamContents, StreamConfigs)
  \/ generateContentReturn(1, Responses)
  \/ generateContentThrow(1)
  \/ generateContentStream(1, StreamContents, StreamConfigs)
  \/ streamGeneratorStart(1)
  \/ streamGeneratorOpen(1)
  \/ streamGeneratorChunk(1, Chunks)
  \/ streamGeneratorResume(1)
  \/ streamGeneratorClose(1)
  \/ streamGeneratorEnd(1)
  \/ streamGeneratorThrow(1)

SpecStream == Init /\ [][NextStream]_vars

\* one embedContent call: conversations of several Turns and parts, and
\* everything the provider may deliver
NextEmbed ==
  \/ embedContent(1, EmbedContents, FewConfigs)
  \/ embedContentReturn(1, EmbeddingResponses)
  \/ embedContentThrow(1)

SpecEmbed == Init /\ [][NextEmbed]_vars

\* what overlapping calls are given: two conversations, one of them empty,
\* with a systemInstruction, and two chunks with different deltas
OverlapContents == {JSString(Hi), JSArray(<<>>)}
OverlapConfigs == {[systemInstruction |-> JSString(Hello)]}
OverlapChunks ==
  {[choices |-> <<[delta |-> [content |-> Hi]]>>],
   [choices |-> <<[delta |-> [content |-> Hello], finish_reason |-> "stop"]>>]}

RECURSIVE ChunksDelivered(_)
\* the number of chunks delivered to the calls of the set C
ChunksDelivered(C) ==
  IF C = {} THEN 0
  ELSE LET c == CHOOSE x \in C : TRUE
       IN Len(ChunksIn(transport[c])) + ChunksDelivered(C \ {c})

\* calls overlapping on one adapter, their steps interleaved in every order;
\* the provider delivers at most MaxChunks chunks in all
Next ==
  \E c \in Calls :
    \/ generateContent(c, OverlapContents, OverlapConfigs)
    \/ generateContentStream(c, OverlapContents, OverlapConfigs)
    \/ streamGeneratorStart(c)
    \/ streamGeneratorOpen(c)
    \/ (ChunksDelivered(Calls) < MaxChunks /\ streamGeneratorChunk(c, OverlapChunks))
    \/ streamGeneratorResume(c)
    \/ streamGeneratorEnd(c)

Spec == Init /\ [][Next]_vars

-----------------------------------------------------------------------------
(* Claims *)

\* the text of a canonical response's first candidate
ResponseText(r) == r.candidates[1].content.parts[1].text

\* the first n elements of a sequence
Prefix(seq, n) == SubSeq(seq, 1, n)

IsPrefixOf(a, b) == Len(a) <= Len(b) /\ Prefix(b, Len(a)) = a

\* the deltas d1..dn of the chunks delivered to call c (an absent or empty
\* delta is the empty string)
DeltasOf(c) ==
  [i \in 1..Len(ChunksIn(transport[c])) |-> DeltaOf(ChunksIn(transport[c])[i])]

\* C1: a stream emits exactly one response per chunk delivered, in chunk
\* order; the i-th emitted text is concat(d1..di), so each emitted text is a
\* prefix of the next.
C1_EmittedTextIsConcatOfDeltas ==
  \A c \in Calls :
    /\ Len(emitted[c]) = Len(ChunksIn(transport[c]))
    /\ \A i \in 1..Len(emitted[c]) :
         /\ ResponseText(emitted[c][i]) = Concat(Prefix(DeltasOf(c), i))
         /\ i > 1 => IsPrefixOf(ResponseText(emitted[c][i - 1]),
                                ResponseText(emitted[c][i]))

\* C1 witness: three chunks with deltas "Hi", absent, "Hello" were emitted as
\* "Hi", "Hi", "HiHello"
C1_Witness ==
  /\ Len(emitted[1]) = 3
  /\ DeltasOf(1) = <<Hi, <<>>, Hello>>
  /\ ResponseText(emitted[1][1]) = Hi
  /\ ResponseText(emitted[1][2]) = Hi
  /\ ResponseText(emitted[1][3]) = Hi \o Hello

\* the finish reason of a canonical response's first candidate
ResponseFinish(r) == r.candidates[1].finishReason

\* the closed table: stop, length, content_filter, and everything else
FinishTable(signal) ==
  CASE signal = "stop" -> "STOP"
    [] signal = "length" -> "MAX_TOKENS"
    [] signal = "content_filter" -> "SAFETY"
    [] OTHER -> "OTHER"

\* the finish signal of the first choice of a response or a chunk
\* ("undefined" when there is no first choice or it carries no signal)
SignalIn(x) == FinishSignalOf(First(x.choices))

\* what the provider delivered last to call c
LastEvent(c) == transport[c][Len(transport[c])]
Delivered(c, ev) == transport[c] # <<>> /\ LastEvent(c).ev = ev

\* C2: at both sites the finish signal is mapped by the same closed table:
\* the one-shot response and every streamed response carry
\* FinishTable(signal), one of four values, and a response or chunk with an
\* unknown or absent signal, or with no first choice, is converted without
\* an error.
C2_FinishReasonTable ==
  \A c \in Calls :
    /\ (op[c] = "generateContent" /\ Delivered(c, "response")) =>
         /\ outcome[c].k = "returned"
         /\ ResponseFinish(outcome[c].value) = FinishTable(SignalIn(LastEvent(c).v))
    /\ Delivered(c, "chunk") => outcome[c].k # "thrown" /\ pc[c] # "failed"
    /\ Len(emitted[c]) = Len(ChunksIn(transport[c]))
    /\ \A i \in 1..Len(emitted[c]) :
         /\ ResponseFinish(emitted[c][i])
              = FinishTable(SignalIn(ChunksIn(transport[c])[i]))
         /\ ResponseFinish(emitted[c][i]) \in {"STOP", "MAX_TOKENS", "SAFETY", "OTHER"}

\* C2 witness: a stream whose chunks carried content_filter, no first choice
\* and length was emitted as SAFETY, OTHER, MAX_TOKENS
C2_Witness ==
  /\ Len(emitted[1]) = 3
  /\ ChunksIn(transport[1])[2].choices = <<>>
  /\ SignalIn(ChunksIn(transport[1])[1]) = "content_filter"
  /\ SignalIn(ChunksIn(transport[1])[3]) = "length"
  /\ ResponseFinish(emitted[1][1]) = "SAFETY"
  /\ ResponseFinish(emitted[1][2]) = "OTHER"
  /\ ResponseFinish(emitted[1][3]) = "MAX_TOKENS"

\* the shape of a canonical response: one candidate, at index 0, whose turn
\* has role model and exactly one Text part, and three usage counters
OneCandidateShape(r) ==
  /\ DOMAIN r = {"candidates", "usageMetadata"}
  /\ Len(r.candidates) = 1
  /\ r.candidates[1].index = 0
  /\ r.candidates[1].content.role = "model"
  /\ Len(r.candidates[1].content.parts) = 1
  /\ DOMAIN r.candidates[1].content.parts[1] = {"text"}
  /\ DOMAIN r.usageMetadata
       = {"promptTokenCount", "candidatesTokenCount", "totalTokenCount"}

\* the text of the provider's first choice, the empty string if there is none
FirstChoiceText(response) ==
  IF response.choices = <<>> THEN <<>>
  ELSE IF "message" \notin DOMAIN response.choices[1] THEN <<>>
  ELSE IF "content" \notin DOMAIN response.choices[1].message THEN <<>>
  ELSE response.choices[1].message.content

\* a usage counter of the provider's response, 0 when the provider omits it
ProviderCounter(response, f) ==
  IF "usage" \notin DOMAIN response THEN 0
  ELSE IF f \notin DOMAIN response.usage THEN 0
  ELSE response.usage[f]

\* C9: every canonical response has the one-candidate shape with all three
\* usage counters; the one-shot response has the text of the provider's first
\* choice (empty if there is none) and the provider's counters, 0 for each
\* one omitted; every streamed response has all three counters 0.
C9_OneCandidateAndUsage ==
  \A c \in Calls :
    /\ (op[c] = "generateContent" /\ Delivered(c, "response")) =>
         /\ outcome[c].k = "returned"
         /\ OneCandidateShape(outcome[c].value)
         /\ ResponseText(outcome[c].value) = FirstChoiceText(LastEvent(c).v)
         /\ outcome[c].value.usageMetadata.promptTokenCount
              = ProviderCounter(LastEvent(c).v, "prompt_tokens")
         /\ outcome[c].value.usageMetadata.candidatesTokenCount
              = ProviderCounter(LastEvent(c).v, "completion_tokens")
         /\ outcome[c].value.usageMetadata.totalTokenCount
              = ProviderCounter(LastEvent(c).v, "total_tokens")
    /\ \A i \in 1..Len(emitted[c]) :
         /\ OneCandidateShape(emitted[c][i])
         /\ emitted[c][i].usageMetadata
              = [promptTokenCount |-> 0, candidatesTokenCount |-> 0,
                 totalTokenCount |-> 0]

\* C9 witness: the provider returned two choices, "Hi" then "Hello", and a
\* usage with prompt_tokens only; the response carries "Hi" and 7, 0, 0
C9_Witness ==
  /\ op[1] = "generateContent"
  /\ Delivered(1, "response")
  /\ Len(LastEvent(1).v.choices) = 2
  /\ FirstChoiceText(LastEvent(1).v) = Hi
  /\ FirstChoiceText([choices |-> Tail(LastEvent(1).v.choices)]) = Hello
  /\ "usage" \in DOMAIN LastEvent(1).v
  /\ DOMAIN LastEvent(1).v.usage = {"prompt_tokens"}
  /\ outcome[1].k = "returned"
  /\ ResponseText(outcome[1].value) = Hi
  /\ outcome[1].value.usageMetadata
       = [promptTokenCount |-> 7, candidatesTokenCount |-> 0,
          totalTokenCount |-> 0]

\* the number of provider calls issued by call c
RECURSIVE CountCalls(_, _)
CountCalls(log, c) ==
  IF log = <<>> THEN 0
  ELSE (IF Head(log).call = c THEN 1 ELSE 0) + CountCalls(Tail(log), c)

\* C10, in a state: once the provider has failed a call, the call has failed
\* with that same error and has issued one provider call; a failed
\* generateContent returned no response, a stream failed after k chunks
\* emitted exactly the k responses for them.
C10_FailureState ==
  \A c \in Calls :
    Delivered(c, "error") =>
      /\ pc[c] = "failed"
      /\ outcome[c] = Thrown(LastEvent(c).v)
      /\ CountCalls(sent, c) = 1
      /\ op[c] = "generateContent" => emitted[c] = <<>>
      /\ Len(emitted[c]) = Len(ChunksIn(transport[c]))

\* C10, in a step: the error is terminal; after it no response is emitted,
\* nothing more is delivered and no provider call is issued again.
C10_FailureStep ==
  \A c \in Calls :
    pc[c] = "failed" =>
      /\ pc'[c] = "failed"
      /\ emitted'[c] = emitted[c]
      /\ outcome'[c] = outcome[c]
      /\ transport'[c] = transport[c]
      /\ CountCalls(sent', c) = CountCalls(sent, c)

\* C10: a provider failure reaches the caller unchanged and is terminal: no
\* response, no retry for generateContent; for a stream, the k responses of
\* the k chunks delivered, then the error, then nothing.
C10_ErrorsPropagate == []C10_FailureState /\ [][C10_FailureStep]_vars

\* C10 witness: a stream failed with a transport error after two chunks, and
\* the consumer holds the two responses and the error
C10_Witness ==
  /\ op[1] = "generateContentStream"
  /\ pc[1] = "failed"
  /\ Len(ChunksIn(transport[1])) = 2
  /\ Len(emitted[1]) = 2
  /\ outcome[1] = Thrown("ProviderTransportError")

-----------------------------------------------------------------------------
(* Claims about the message list *)

\* the calls whose handler has built its message list
Translated(c) == pc[c] \in {"awaitCompletion", "awaitStream", "done"}

\* the system text a message list carries: the content of a leading system
\* message, the empty string when there is none
EffectiveSystemText(msgs) ==
  IF msgs # <<>> /\ msgs[1].role = "system" THEN msgs[1].content ELSE <<>>

\* a message list without its leading system message
ConversationPart(msgs) ==
  IF msgs # <<>> /\ msgs[1].role = "system" THEN Tail(msgs) ELSE msgs

\* an element that bears text: a string, or a Part with a non-empty text
IsTextBearing(p) ==
  \/ p.k = "string"
  \/ p.k = "object" /\ "text" \in DOMAIN p /\ p.text # <<>>

\* the texts of the text-bearing elements of a list, in order
TextsOfParts(parts) ==
  LET bearing == SelectSeq(parts, IsTextBearing)
  IN [i \in 1..Len(bearing) |->
        IF bearing[i].k = "string" THEN bearing[i].s ELSE bearing[i].text]

\* the text a systemInstruction resolves to: a string is its text, a Part
\* its text, a list of Parts or a Turn the newline join of its text-bearing
\* elements; anything else, and no systemInstruction, the empty string
ResolvedSystemText(si) ==
  CASE si.k = "string" -> si.s
    [] si.k = "array" -> JoinStrings(TextsOfParts(si.items), NL)
    [] si.k = "object" /\ "text" \in DOMAIN si -> si.text
    [] si.k = "object" /\ "text" \notin DOMAIN si /\ "parts" \in DOMAIN si ->
         JoinStrings(TextsOfParts(si.parts), NL)
    [] OTHER -> <<>>

\* the message list the claim expects for a request
ExpectedMessages(req) ==
  LET st == ResolvedSystemText(SystemInstructionOf(req))
  IN (IF st # <<>> THEN <<Message("system", st)>> ELSE <<>>)
       \o convertToOpenAIMessages(req.contents)

\* C3: in every message list sent to the provider, by generateContent or by
\* a stream, a systemInstruction that resolves to non-empty text is the
\* first message, with role system and exactly that text, and no other
\* message has role system; otherwise there is no system message.  The
\* other messages are the translated conversation messages, in order.
C3_SystemMessageFirst ==
  \A n \in 1..Len(sent) :
    LET req == request[sent[n].call]
        msgs == sent[n].messages
        st == ResolvedSystemText(SystemInstructionOf(req))
    IN /\ msgs = ExpectedMessages(req)
       /\ st # <<>> => msgs[1] = Message("system", st)
       /\ \A i \in 1..Len(msgs) :
            msgs[i].role = "system" => i = 1 /\ st # <<>>
       /\ ConversationPart(msgs) = convertToOpenAIMessages(req.contents)

\* C3 witness: a stream sent the system text of a two-part systemInstruction
\* first, then the two conversation messages in order
C3_Witness ==
  /\ Len(sent) = 1
  /\ sent[1].stream
  /\ sent[1].messages
       = <<Message("system", Hi \o NL \o Hello), Message("user", Hi),
           Message("assistant", Hello)>>

\* C4: the encodings of a systemInstruction yield the same system text, in
\* generateContent and in a stream: texts t1..tk given as a list of Text
\* Parts or as a Turn with those parts yield the non-empty texts joined with
\* a newline; a text t given as a string, as a Part, as a one-element Part
\* list or as a one-part Turn yields t.
C4_SystemEncodingsAgree ==
  \A c \in Calls :
    pc[c] \in {"awaitCompletion", "awaitStream"} =>
      LET si == SystemInstructionOf(request[c])
          got == EffectiveSystemText(messages[c])
      IN /\ \A ts \in SeqsUpTo(Texts, MaxSysParts) :
              LET parts == [i \in 1..Len(ts) |-> TextPart(ts[i])]
              IN si \in {JSArray(parts), Turn("user", parts),
                         [k |-> "object", parts |-> parts]}
                   => got = JoinStrings(SelectSeq(ts, LAMBDA t : t # <<>>), NL)
         /\ \A t \in Texts :
              si \in {JSString(t), TextPart(t), JSArray(<<TextPart(t)>>),
                      Turn("user", <<TextPart(t)>>),
                      [k |-> "object", parts |-> <<TextPart(t)>>]}
                => got = t

\* C4 witness: a stream resolved a Turn with the Text Parts "Hi", "Hello" to
\* "Hi\nHello"
C4_Witness ==
  /\ op[1] = "generateContentStream"
  /\ pc[1] = "awaitStream"
  /\ SystemInstructionOf(request[1])
       = Turn("user", <<TextPart(Hi), TextPart(Hello)>>)
  /\ EffectiveSystemText(messages[1]) = Hi \o NL \o Hello

\* a Turn of the canonical model: a role and a list of Parts
IsCanonicalTurn(t) ==
  /\ t.k = "object"
  /\ DOMAIN t = {"k", "role", "parts"}
  /\ \A i \in 1..Len(t.parts) : t.parts[i] \in ObjectParts

\* the Turns of a conversation given as a Turn or as an array of Turns
TurnsOf(contents) == IF contents.k = "array" THEN contents.items ELSE <<contents>>

IsCanonicalConversation(contents) ==
  /\ contents.k \in {"array", "object"}
  /\ \A i \in 1..Len(TurnsOf(contents)) : IsCanonicalTurn(TurnsOf(contents)[i])

\* the message of one Turn: none unless the role is user or model and a
\* Part bears text
TurnMessage(t) ==
  IF t.role \in {"user", "model"} /\ TextsOfParts(t.parts) # <<>>
  THEN <<Message(IF t.role = "user" THEN "user" ELSE "assistant",
                 JoinStrings(TextsOfParts(t.parts), NL))>>
  ELSE <<>>

RECURSIVE TurnMessages(_)
\* the order-preserving image of the text-bearing user and model Turns
TurnMessages(turns) ==
  IF turns = <<>> THEN <<>>
  ELSE TurnMessages(SubSeq(turns, 1, Len(turns) - 1))
         \o TurnMessage(turns[Len(turns)])

\* C5: for a conversation of Turns, the translated messages are the
\* order-preserving image of the text-bearing user and model Turns: a user
\* Turn gives a user message, a model Turn an assistant message, whose
\* content is the Turn's Text parts (those bearing text) joined with a
\* newline in part order; no Turn gives more than one message, none is
\* reordered or merged, and non-text Parts contribute nothing.
C5_TurnsTranslateInOrder ==
  \A c \in Calls :
    (Translated(c) /\ IsCanonicalConversation(request[c].contents)) =>
      ConversationPart(messages[c]) = TurnMessages(TurnsOf(request[c].contents))

\* C5 witness: a user Turn "Hi" and a model Turn "Hello" were translated to
\* a user message "Hi" followed by an assistant message "Hello"
C5_Witness ==
  /\ Translated(1)
  /\ request[1].contents
       = JSArray(<<Turn("user", <<TextPart(Hi)>>), Turn("model", <<TextPart(Hello)>>)>>)
  /\ ConversationPart(messages[1])
       = <<Message("user", Hi), Message("assistant", Hello)>>

\* C6 (as claimed): every message the translator emits has non-empty content
C6_NoEmptyMessage ==
  \A c \in Calls :
    Translated(c) =>
      \A i \in 1..Len(messages[c]) : messages[c][i].content # <<>>

\* the encodings of one user text
UserTextEncodings(text) ==
  {JSString(text), JSArray(<<JSString(text)>>),
   TextPart(text), JSArray(<<TextPart(text)>>),
   Turn("user", <<TextPart(text)>>), JSArray(<<Turn("user", <<TextPart(text)>>)>>)}

\* C7: every encoding of one non-empty user text (string, one-element string
\* array, Part, Part array, user Turn, one-element Turn array) is translated
\* to exactly one user message with exactly that text, and no system message.
C7_UserTextEncodingsAgree ==
  \A c \in Calls :
    Translated(c) =>
      \A text \in Texts \ {<<>>} :
        request[c].contents \in UserTextEncodings(text) =>
          /\ ConversationPart(messages[c]) = <<Message("user", text)>>
          /\ SystemInstructionOf(request[c]) = Undefined
               => messages[c] = <<Message("user", text)>>

\* C7 witness: the Part array [{text: "Hello"}] was translated to the one
\* user message "Hello"
C7_Witness ==
  /\ op[1] = "countTokens"
  /\ pc[1] = "done"
  /\ request[1].contents = JSArray(<<TextPart(Hello)>>)
  /\ messages[1] = <<Message("user", Hello)>>

\* ceil(n / 4): the least k with 4k >= n
CeilQuarter(n) == CHOOSE k \in 0..n : 4 * k >= n /\ \A j \in 0..n : 4 * j >= n => k <= j

\* C8 (as claimed): countTokens returns ceil(L / 4), L the number of
\* characters of the bodies of the message list generateContent would send
\* for the request (conversation and systemInstruction)
C8_TokensOfSentMessages ==
  \A c \in Calls :
    (op[c] = "countTokens" /\ pc[c] = "done") =>
      /\ outcome[c].k = "returned"
      /\ outcome[c].value.totalTokens
           = CeilQuarter(Len(TotalText(ExpectedMessages(request[c]))))

\* C8, the estimate the code computes: countTokens returns ceil(L / 4), L the
\* number of characters of the bodies of the translated conversation messages
\* alone, concatenated without separators; the systemInstruction is not
\* counted.  The call returns for every request.
C8_TokensOfConversation ==
  \A c \in Calls :
    (op[c] = "countTokens" /\ pc[c] # "idle") =>
      /\ pc[c] = "done"
      /\ outcome[c].k = "returned"
      /\ outcome[c].value.totalTokens
           = CeilQuarter(Len(TotalText(convertToOpenAIMessages(request[c].contents))))

\* C8, the estimate the code computes, reached: a conversation of "Hi" and "Hello" (7 characters) with the
\* systemInstruction "Hello" was estimated at 2 tokens, not at the 3 of the
\* 12 characters generateContent would send
C8_Witness ==
  /\ op[1] = "countTokens"
  /\ pc[1] = "done"
  /\ SystemInstructionOf(request[1]) = JSString(Hello)
  /\ TotalText(convertToOpenAIMessages(request[1].contents)) = Hi \o Hello
  /\ Len(TotalText(ExpectedMessages(request[1]))) = 12
  /\ outcome[1] = Returned([totalTokens |-> 2])

-----------------------------------------------------------------------------
(* Claims about the empty conversation *)

RECURSIVE BearsText(_)
\* a conversation value that holds some non-empty text: a string, a Part's
\* text, a part of a Turn, an element of a list
BearsText(v) ==
  CASE v.k = "string" -> v.s # <<>>
    [] v.k = "array" -> \E i \in 1..Len(v.items) : BearsText(v.items[i])
    [] v.k = "object" /\ "text" \in DOMAIN v -> v.text # <<>>
    [] v.k = "object" /\ "text" \notin DOMAIN v /\ "parts" \in DOMAIN v ->
         \E i \in 1..Len(v.parts) : BearsText(v.parts[i])
    [] OTHER -> FALSE

\* C11: a generateContent or generateContentStream call whose conversation
\* has no text-bearing Turn has failed with EmptyConversation as soon as it
\* was made and has issued no provider call; no chat request sent to the
\* provider has an empty conversation.
C11_EmptyConversationReported ==
  /\ \A c \in Calls :
        (/\ op[c] \in {"generateContent", "generateContentStream"}
         /\ ~BearsText(request[c].contents)) =>
          /\ outcome[c] = Thrown("EmptyConversation")
          /\ CountCalls(sent, c) = 0
  /\ \A n \in 1..Len(sent) :
        sent[n].api = "chat.completions.create" =>
          ConversationPart(sent[n].messages) # <<>>

-----------------------------------------------------------------------------
(* Claims about embedContent *)

\* the provider calls issued by call c, in order
CallsOf(c) == SelectSeq(sent, LAMBDA e : e.call = c)

\* the number of Text parts of a conversation that is a list of Turns
RECURSIVE PartsIn(_)
PartsIn(turns) ==
  IF turns = <<>> THEN 0 ELSE Len(Head(turns).parts) + PartsIn(Tail(turns))

\* C12: an embedContent call has issued exactly one provider call, an
\* embeddings call for the model text-embedding-3-small; when it has
\* returned, its result is a list of exactly one embedding whose values are
\* the first vector the provider returned, however many Turns and Text parts
\* the conversation has.
C12_OneEmbeddingOneVector ==
  \A c \in Calls :
    op[c] = "embedContent" =>
      /\ Len(CallsOf(c)) = 1
      /\ CallsOf(c)[1].api = "embeddings.create"
      /\ CallsOf(c)[1].model = "text-embedding-3-small"
      /\ pc[c] = "done" =>
           /\ outcome[c].k = "returned"
           /\ DOMAIN outcome[c].value = {"embeddings"}
           /\ Len(outcome[c].value.embeddings) = 1
           /\ outcome[c].value.embeddings[1]
                = [values |-> Head(LastEvent(c).v.data).embedding]

\* C12 witness: a conversation of two Turns with three Text parts in all
\* was embedded, the provider returned two different vectors, and the
\* caller holds the first alone
C12_Witness ==
  /\ op[1] = "embedContent"
  /\ pc[1] = "done"
  /\ request[1].contents.k = "array"
  /\ Len(request[1].contents.items) = 2
  /\ PartsIn(request[1].contents.items) = 3
  /\ Len(LastEvent(1).v.data) = 2
  /\ LastEvent(1).v.data[1] # LastEvent(1).v.data[2]
  /\ outcome[1] = Returned([embeddings |-> <<[values |-> LastEvent(1).v.data[1].embedding]>>])

-----------------------------------------------------------------------------
(* Claims about overlapping streams *)

\* the texts a stream's consumer has received, in order
EmittedTexts(c) == [i \in 1..Len(emitted[c]) |-> ResponseText(emitted[c][i])]

\* the texts a stream fed the deltas ds alone emits: the running
\* concatenations of ds
RunningTexts(ds) == [i \in 1..Len(ds) |-> Concat(Prefix(ds, i))]

\* C13, in a state: each stream has emitted exactly the running
\* concatenations of its own deltas, whatever the other calls received; its
\* accumulator is empty until its first chunk, and every provider call was
\* issued with the client configuration of the constructor.
C13_StreamState ==
  /\ \A c \in Calls :
        op[c] = "generateContentStream" =>
          /\ EmittedTexts(c) = RunningTexts(DeltasOf(c))
          /\ accumulatedText[c] = Concat(DeltasOf(c))
          /\ ChunksIn(transport[c]) = <<>> => accumulatedText[c] = <<>>
  /\ \A n \in 1..Len(sent) : sent[n].client = client

\* C13: overlapping streams on one adapter are isolated under every
\* interleaving of chunk arrivals and consumer pulls, each stream's
\* accumulator starts empty, and the client configuration never changes
\* after construction.
C13_StreamsIsolated == []C13_StreamState /\ [][client' = client]_vars

\* C13 witness: two streams are in flight at once, the first has received
\* two chunks and the second one chunk with a different delta, and each
\* consumer holds its own stream's text
C13_Witness ==
  /\ op[1] = "generateContentStream" /\ op[2] = "generateContentStream"
  /\ pc[1] = "yielded" /\ pc[2] = "yielded"
  /\ DeltasOf(1) = <<Hi, Hi>>
  /\ DeltasOf(2) = <<Hello>>
  /\ EmittedTexts(1) = <<Hi, Hi \o Hi>>
  /\ EmittedTexts(2) = <<Hello>>

-----------------------------------------------------------------------------
(* Claims about array inputs *)

IsStringElement(e) == e.k = "string"
IsBarePart(e) == e.k = "object" /\ "role" \notin DOMAIN e /\ "parts" \notin DOMAIN e
IsTurnElement(e) == e.k = "object" /\ "role" \in DOMAIN e

\* the texts an element carries: a string, a Part's text, the texts of a
\* Turn's parts
TextsIn(e) ==
  CASE e.k = "string" -> {e.s}
    [] e.k = "object" /\ "text" \in DOMAIN e -> {e.text}
    [] e.k = "object" /\ "text" \notin DOMAIN e /\ "parts" \in DOMAIN e ->
         {e.parts[i].s : i \in {j \in 1..Len(e.parts) : e.parts[j].k = "string"}}
         \cup {e.parts[i].text :
                 i \in {j \in 1..Len(e.parts) :
                          e.parts[j].k = "object" /\ "text" \in DOMAIN e.parts[j]}}
    [] OTHER -> {}

\* the texts of the elements of an array
ArrayTexts(items) == UNION {TextsIn(items[i]) : i \in 1..Len(items)}

\* a message body made of texts of the set alone, joined with newlines
ComposedOf(content, texts) ==
  \E ts \in SeqsUpTo(texts, MaxInputSize) : content = JoinStrings(ts, NL)

\* the messages of the Turns of an array, Turn by Turn
RECURSIVE MessagesOfTurns(_)
MessagesOfTurns(turns) ==
  IF turns = <<>> THEN <<>>
  ELSE (IF "parts" \in DOMAIN Head(turns) THEN TurnMessage(Head(turns)) ELSE <<>>)
         \o MessagesOfTurns(Tail(turns))

-----------------------------------------------------------------------------
(* Claims about the translator's determinism *)

\* the conversation and the systemInstruction of a provider call's request
TranslatedInput(n) ==
  <<request[sent[n].call].contents, SystemInstructionOf(request[sent[n].call])>>

\* C15, in a state: any two chat requests sent for the same conversation
\* and systemInstruction carry identical message lists, whichever operation
\* sent them and whatever calls were made or were in flight in between.
C15_SameInputSameMessages ==
  \A i, j \in 1..Len(sent) :
    (/\ sent[i].api = "chat.completions.create"
     /\ sent[j].api = "chat.completions.create"
     /\ TranslatedInput(i) = TranslatedInput(j)) =>
      sent[i].messages = sent[j].messages

\* C15, in a step: no step changes the request of a call that was made, nor
\* a message list already sent.
C15_InputsUnchanged ==
  /\ \A c \in Calls : op[c] # "none" => request'[c] = request[c]
  /\ \A n \in 1..Len(sent) : Len(sent') >= n /\ sent'[n] = sent[n]

\* C15: the translator is deterministic and history-independent, and a
\* translation leaves the request's conversation and systemInstruction
\* unchanged.
C15_TranslatorDeterministic ==
  []C15_SameInputSameMessages /\ [][C15_InputsUnchanged]_vars

\* C15 witness: a stream and a generateContent call were given the same
\* conversation and systemInstruction; the stream is in flight with a chunk
\* delivered, and both sent the same system and user message
C15_Witness ==
  /\ op[1] = "generateContentStream" /\ pc[1] = "yielded"
  /\ op[2] = "generateContent"
  /\ request[1] = request[2]
  /\ Len(sent) = 2
  /\ sent[1].call # sent[2].call
  /\ sent[1].messages = <<Message("system", Hello), Message("user", Hi)>>
  /\ sent[2].messages = sent[1].messages

====
